---- MODULE Spec2Model ----
(***************************************************************************)
(* A model of the DEFSPACE news scraper: RobustNewsScraper                 *)
(* (src/simple_scraper.py) and SimpleNewsScraper (src/Main.py).            *)
(*                                                                         *)
(* Python strings are TLA+ strings; Len, SubSeq and \o act on them         *)
(* character by character, so substring search, lower-casing and the       *)
(* regular-expression substitutions of clean_text are computed on the      *)
(* characters, as the code computes them.                                  *)
(***************************************************************************)
EXTENDS Integers, Sequences, FiniteSets, TLC

VARIABLES
    impl,        \* which class is running: "Robust" or "Simple"
    pc,          \* position of run_scraper
    days_back,   \* the days_back argument of run_scraper
    feedIdx,     \* index of the next feed of the harvest loop
    stats,       \* RobustNewsScraper.stats
    articles,    \* the list scrape_rss_feeds builds
    failed_urls, \* scrape_rss_feeds' failed_urls
    attempted,   \* history: feed URLs in the order the loop requested them
    lastFeed,    \* history: what the feed processed last delivered, and the fates
    report,      \* the string generate_simple_report returned ("" before)
    saved,       \* "not_called", or how the write of save_report ended
    exitCode,    \* process exit code, -1 while running
    classify,    \* one call of is_relevant_article
    clean,       \* repeated calls of clean_text
    extract,     \* one call of extract_full_article
    call         \* one call of another function: its name, arguments and result

vars == << impl, pc, days_back, feedIdx, stats, articles, failed_urls, attempted, lastFeed,
           report, saved, exitCode, classify, clean, extract, call >>

runVars == << impl, pc, days_back, feedIdx, stats, articles, failed_urls, attempted, lastFeed,
              report, saved, exitCode >>

(***************************************************************************)
(* Bounds of the model.                                                    *)
(***************************************************************************)
MaxTitleWords == 2
MaxFeedsPerCategory == 2
MaxArticles == 2
MaxCleanFragments == 3
MaxDedupeLen == 3
WeekPolls == 20

(***************************************************************************)
(* Strings.                                                                *)
(***************************************************************************)
\* Python's `k in text` for strings: k occurs as a substring of text.
Contains(k, text) ==
    \E i \in 1..(Len(text) - Len(k) + 1) : SubSeq(text, i, i + Len(k) - 1) = k

UpperToLower ==
    ("A" :> "a") @@ ("B" :> "b") @@ ("C" :> "c") @@ ("D" :> "d") @@ ("E" :> "e") @@
    ("F" :> "f") @@ ("G" :> "g") @@ ("H" :> "h") @@ ("I" :> "i") @@ ("J" :> "j") @@
    ("K" :> "k") @@ ("L" :> "l") @@ ("M" :> "m") @@ ("N" :> "n") @@ ("O" :> "o") @@
    ("P" :> "p") @@ ("Q" :> "q") @@ ("R" :> "r") @@ ("S" :> "s") @@ ("T" :> "t") @@
    ("U" :> "u") @@ ("V" :> "v") @@ ("W" :> "w") @@ ("X" :> "x") @@ ("Y" :> "y") @@
    ("Z" :> "z")

LowerChar(c) == IF c \in DOMAIN UpperToLower THEN UpperToLower[c] ELSE c

\* str.lower(), character by character (the two halves are lowered apart to
\* keep the recursion shallow).
RECURSIVE Lower(_)
Lower(s) ==
    IF Len(s) <= 1 THEN LowerChar(s)
    ELSE LET h == Len(s) \div 2
         IN  Lower(SubSeq(s, 1, h)) \o Lower(SubSeq(s, h + 1, Len(s)))

\* sum(1 for kw in keywords if kw in text)
CountMatches(keywords, text) ==
    Cardinality({i \in 1..Len(keywords) : Contains(keywords[i], text)})

\* any(kw in text for kw in keywords)
AnyMatch(keywords, text) ==
    \E i \in 1..Len(keywords) : Contains(keywords[i], text)

(***************************************************************************)
(* The vocabularies of RobustNewsScraper.__init__ and the keyword list of  *)
(* SimpleNewsScraper.__init__.                                             *)
(***************************************************************************)
high_priority_defense ==
    << "drdo", "hal", "hindustan aeronautics", "bel",
       "bhel", "ordnance factory", "indian air force", "indian army",
       "indian navy", "coast guard", "tejas", "brahmos",
       "agni", "prithvi", "akash", "nag missile",
       "pinaka", "indigenous aircraft carrier", "ins vikrant", "ins arihant",
       "light combat aircraft", "advanced medium combat aircraft", "amca", "defence research",
       "military exercise", "surgical strike", "border security force", "central reserve police",
       "itbp", "defense procurement", "defense contract", "defense manufacturing",
       "atmanirbhar defense", "make in india defense", "defense export", "military modernization",
       "fighter aircraft", "combat helicopter", "naval ship", "submarine",
       "missile defense", "radar system", "electronic warfare", "cyber warfare",
       "military satellite" >>

high_priority_space ==
    << "isro", "indian space research", "chandrayaan", "mangalyaan",
       "gaganyaan", "pslv", "gslv", "sslv",
       "rocket launch", "satellite launch", "space mission", "lunar mission",
       "mars mission", "venus mission", "earth observation", "communication satellite",
       "navigation satellite", "space technology", "space exploration", "orbital mission",
       "space station", "space program", "space policy", "space sector",
       "space startup", "commercial space", "space economy", "antrix",
       "nsil", "newspace india", "in-space", "skyroot",
       "agnikul", "pixxel", "bellatrix", "dhruva space",
       "space applications centre", "vikram sarabhai", "space centre", "satellite constellation",
       "remote sensing", "space research" >>

defense_keywords ==
    << "defense", "defence", "military", "armed forces",
       "security forces", "border security", "national security", "homeland security",
       "peacekeeping", "counter-terrorism", "anti-terrorism", "strategic partnership",
       "defense cooperation", "military cooperation", "joint exercise", "bilateral exercise",
       "war game", "training exercise", "modernization", "procurement",
       "acquisition", "indigenous", "self-reliance", "strategic autonomy",
       "geopolitical", "warfare", "combat", "operational",
       "tactical", "strategic", "intelligence", "surveillance",
       "reconnaissance", "armament", "weaponry", "munitions",
       "ordinance", "fleet", "squadron", "regiment",
       "battalion", "brigade", "command", "headquarters",
       "base", "cantonment", "veteran", "soldier",
       "officer", "personnel", "deployment", "maritime security",
       "coastal security", "airspace", "line of control", "line of actual control",
       "ceasefire", "cross-border", "infiltration", "escalation",
       "deterrence" >>

space_keywords ==
    << "space", "satellite", "launch", "rocket",
       "mission", "orbit", "spacecraft", "probe",
       "lander", "rover", "orbiter", "astronaut",
       "cosmonaut", "space flight", "space travel", "launch vehicle",
       "propulsion", "engine", "fuel", "payload",
       "trajectory", "orbital", "interplanetary", "lunar",
       "planetary", "astronomy", "astrophysics", "space science",
       "cosmology", "telescope", "observatory", "space weather",
       "solar", "constellation", "network", "communication",
       "navigation", "positioning", "tracking", "monitoring",
       "imaging", "data", "signal", "transmission",
       "ground station", "mission control", "launch pad", "spaceport",
       "facility", "technology transfer", "commercial", "private sector",
       "startup", "innovation", "research", "development",
       "international", "collaboration", "partnership", "agreement" >>

exclusion_keywords ==
    << "bollywood", "hollywood", "cinema", "movie", "film",
       "actor", "actress", "cricket", "football", "sports",
       "match", "tournament", "player", "recipe", "cooking",
       "food", "restaurant", "cuisine", "chef", "entertainment",
       "music", "concert", "show", "performance", "festival",
       "celebration", "wedding", "marriage", "ceremony", "stock market",
       "share price", "trading", "investment banking", "real estate", "property",
       "housing", "construction", "agriculture", "farming", "crop",
       "harvest", "farmer", "education", "school", "college",
       "university", "student", "healthcare", "hospital", "doctor",
       "patient", "treatment", "politics", "election", "voting",
       "campaign", "politician", "economics", "gdp", "inflation",
       "budget", "finance minister", "tourism", "travel", "vacation",
       "holiday", "destination", "weather", "climate", "rain",
       "temperature", "season" >>

Simple_keywords ==
    << "india", "indian", "defense", "defence", "space",
       "isro", "hal", "drdo", "private", "contract",
       "deal", "startup", "investment", "manufacturing" >>

(***************************************************************************)
(* RobustNewsScraper.is_relevant_article.                                  *)
(***************************************************************************)
\* text = (str(title) + " " + str(content)).lower()
ClassifierText(title, content) == Lower(title \o " " \o content)

\* if any(excl_keyword in text for excl_keyword in self.exclusion_keywords)
ExclusionGate(text) == AnyMatch(exclusion_keywords, text)

\* A variant of the high-priority gate that knows only the space terms.
HighPriorityGateSpaceOnly(text) == AnyMatch(high_priority_space, text)

\* for keyword in self.high_priority_defense + self.high_priority_space:
\*     if keyword in text: return True
HighPriorityGate(text) == AnyMatch(high_priority_defense \o high_priority_space, text)

\* total_matches = defense_matches + space_matches
GeneralMatches(text) ==
    CountMatches(defense_keywords, text) + CountMatches(space_keywords, text)

MinGeneralMatches == 2

defense_context_terms ==
    << "military", "defense", "defence", "armed forces", "security",
       "missile", "aircraft", "naval", "army", "air force" >>

space_context_terms ==
    << "space", "satellite", "launch", "rocket", "mission", "isro",
       "orbital", "astronaut", "spacecraft" >>

\* A variant of the context check that forgets the space terms.
ContextCheckDefenseOnly(text) == AnyMatch(defense_context_terms, text)

\* return defense_context or space_context
ContextCheck(text) ==
    AnyMatch(defense_context_terms, text) \/ AnyMatch(space_context_terms, text)

\* A variant of the gates with the high-priority gate ahead of the exclusion
\* gate.
RelevanceGatesHighPriorityFirst(text) ==
    IF HighPriorityGate(text) THEN TRUE
    ELSE IF ExclusionGate(text) THEN FALSE
    ELSE IF GeneralMatches(text) >= MinGeneralMatches THEN ContextCheck(text)
    ELSE FALSE

\* The decision once the text is built: exclusion gate, then high-priority
\* gate, then the general score with its context check.
RelevanceGates(text) ==
    IF ExclusionGate(text) THEN FALSE
    ELSE IF HighPriorityGate(text) THEN TRUE
    ELSE IF GeneralMatches(text) >= MinGeneralMatches THEN ContextCheck(text)
    ELSE FALSE

Robust_is_relevant_article(title, content) ==
    IF title = "" /\ content = "" THEN FALSE
    ELSE RelevanceGates(ClassifierText(title, content))

(***************************************************************************)
(* SimpleNewsScraper.is_relevant_article.                                  *)
(***************************************************************************)
Simple_is_relevant_article(title, content) ==
    AnyMatch(Simple_keywords, Lower(title \o " " \o content))

is_relevant_article(class, title, content) ==
    IF class = "Robust" THEN Robust_is_relevant_article(title, content)
    ELSE Simple_is_relevant_article(title, content)

(***************************************************************************)
(* clean_text (both classes): the regular-expression substitutions, on the *)
(* characters of the text.                                                 *)
(***************************************************************************)
CharAt(s, i) == SubSeq(s, i, i)

\* The characters of s at the positions in keep, in order.
RECURSIVE KeepRange(_, _, _, _)
KeepRange(s, keep, lo, hi) ==
    IF lo > hi THEN ""
    ELSE IF lo = hi THEN (IF lo \in keep THEN CharAt(s, lo) ELSE "")
    ELSE LET m == (lo + hi) \div 2
         IN  KeepRange(s, keep, lo, m) \o KeepRange(s, keep, m + 1, hi)

Keep(s, keep) == KeepRange(s, keep, 1, Len(s))

\* re.sub(r'c+', 'c', text) for a single character c: each run of c becomes
\* one c.
CollapseRuns(s, c) ==
    Keep(s, {i \in 1..Len(s) : ~(CharAt(s, i) = c /\ i > 1 /\ CharAt(s, i - 1) = c)})

\* Positions j..i hold no newline: '.' matches every character but "\n".
SameLine(s, j, i) == \A k \in j..i : CharAt(s, k) # "\n"

\* re.sub(pattern, '', text) for a pattern of the shape  <trigger>.*  : a
\* match starts at the leftmost trigger of a line and runs to the end of that
\* line, so a character is removed iff a trigger starts at or before it on
\* its line.  starts is the set of positions where the trigger matches.
RemoveToEndOfLine(s, starts) ==
    Keep(s, {i \in 1..Len(s) : ~(\E j \in starts : j <= i /\ SameLine(s, j, i))})

\* unwanted_patterns.  Each is: one of the words of first, then (when then is
\* not empty) lazily any characters of the line and one of the words of
\* then, then the rest of the line.
unwanted_patterns ==
    << [first |-> << "Advertisement", "Subscribe", "Read More", "Continue Reading" >>,
        then |-> << >>],
       [first |-> << "Share" >>, then |-> << "Facebook", "Twitter", "LinkedIn" >>],
       [first |-> << "Follow us on" >>, then |-> << >>],
       [first |-> << "Also Read:" >>, then |-> << >>],
       [first |-> << "Related:" >>, then |-> << >>] >>

\* flags=re.IGNORECASE: the words are compared lower-cased with the
\* lower-cased text.
LoweredPatterns ==
    [n \in 1..Len(unwanted_patterns) |->
        [first |-> [m \in 1..Len(unwanted_patterns[n].first) |->
                        Lower(unwanted_patterns[n].first[m])],
         then |-> [m \in 1..Len(unwanted_patterns[n].then) |->
                        Lower(unwanted_patterns[n].then[m])]]]

\* The word lit stands at position j of the lower-cased text low.
WordAt(low, j, lit) ==
    /\ j + Len(lit) - 1 <= Len(low)
    /\ SubSeq(low, j, j + Len(lit) - 1) = lit

\* The positions of s where pattern pat matches; low is s lower-cased.
PatternStarts(s, low, pat) ==
    {j \in 1..Len(s) :
        \E m \in 1..Len(pat.first) :
            /\ WordAt(low, j, pat.first[m])
            /\ \/ Len(pat.then) = 0
               \/ \E k \in (j + Len(pat.first[m]))..Len(s) :
                     /\ \E n \in 1..Len(pat.then) : WordAt(low, k, pat.then[n])
                     /\ SameLine(s, j, k)}

\* for pattern in unwanted_patterns: text = re.sub(pattern, '', text, ...)
RECURSIVE RemoveUnwantedFrom(_, _)
RemoveUnwantedFrom(s, n) ==
    IF n > Len(unwanted_patterns) THEN s
    ELSE RemoveUnwantedFrom(
            RemoveToEndOfLine(s, PatternStarts(s, Lower(s), LoweredPatterns[n])), n + 1)

RemoveUnwanted(s) == RemoveUnwantedFrom(s, 1)

Whitespace == {" ", "\n", "\t", "\r", "\f"}

\* str.strip()
Strip(s) ==
    LET solid == {i \in 1..Len(s) : CharAt(s, i) \notin Whitespace}
    IN  IF solid = {} THEN ""
        ELSE SubSeq(s, CHOOSE i \in solid : \A j \in solid : i <= j,
                       CHOOSE i \in solid : \A j \in solid : i >= j)

\* SimpleNewsScraper.clean_text
Simple_clean_text(text) ==
    Strip(RemoveUnwanted(CollapseRuns(CollapseRuns(text, "\n"), " ")))

\* RobustNewsScraper.clean_text
Robust_clean_text(text) ==
    IF text = "" THEN "" ELSE Simple_clean_text(text)

clean_text(class, text) ==
    IF class = "Robust" THEN Robust_clean_text(text) ELSE Simple_clean_text(text)

(***************************************************************************)
(* Inputs of clean_text: up to MaxCleanFragments fragments, concatenated.  *)
(***************************************************************************)
CleanFragmentPool ==
    { "a", "a\n", "\nb", " ", "Advertisement\n", "subscribe now",
      "Share on ", "Twitter" }

RECURSIVE Concatenations(_)
Concatenations(n) ==
    IF n = 0 THEN {""}
    ELSE Concatenations(n - 1)
            \cup {p \o f : p \in Concatenations(n - 1), f \in CleanFragmentPool}

CleanInputs == Concatenations(MaxCleanFragments)

(***************************************************************************)
(* RobustNewsScraper.safe_request.  The network is a script: the outcome   *)
(* of the 1st, 2nd, ... GET of the call.                                   *)
(***************************************************************************)
max_retries == 3

RetryAtLimit == {"timeout", "connection", "http403", "http404", "http429"}

ErrorText(outcome, url) ==
    CASE outcome = "timeout"       -> "Timeout: " \o url
      [] outcome = "connection"    -> "Connection error: " \o url
      [] outcome = "http403"       -> "HTTP 403: " \o url
      [] outcome = "http404"       -> "HTTP 404: " \o url
      [] outcome = "http429"       -> "HTTP 429: " \o url
      [] outcome \in {"http500", "http503"} -> "HTTP error " \o url
      [] outcome = "request_error" -> "Request error " \o url
      [] OTHER                     -> "Unexpected error " \o url

\* A variant of the loop that appends an entry to stats['errors'] at every
\* failed attempt, not only at the attempt that returns.
RECURSIVE SafeRequestLoggingEveryAttempt(_, _, _, _)
SafeRequestLoggingEveryAttempt(url, script, attempt, retries) ==
    IF attempt >= retries THEN [ok |-> FALSE, gets |-> attempt, errors |-> << >>]
    ELSE LET outcome == script[attempt + 1]
         IN  IF outcome = "ok"
                THEN [ok |-> TRUE, gets |-> attempt + 1, errors |-> << >>]
             ELSE IF outcome \in RetryAtLimit /\ attempt < retries - 1
                THEN LET rest == SafeRequestLoggingEveryAttempt(url, script, attempt + 1,
                                                                retries)
                     IN  [rest EXCEPT !.errors = << ErrorText(outcome, url) >> \o @]
             ELSE [ok |-> FALSE, gets |-> attempt + 1,
                   errors |-> << ErrorText(outcome, url) >>]

\* The loop body from attempt (0-based) on: what the call returns, the GETs
\* it made and the entries it appended to stats['errors'].
RECURSIVE SafeRequestFrom(_, _, _, _)
SafeRequestFrom(url, script, attempt, retries) ==
    IF attempt >= retries THEN [ok |-> FALSE, gets |-> attempt, errors |-> << >>]
    ELSE LET outcome == script[attempt + 1]
         IN  IF outcome = "ok"
                THEN [ok |-> TRUE, gets |-> attempt + 1, errors |-> << >>]
             ELSE IF outcome \in RetryAtLimit
                THEN IF attempt = retries - 1
                        THEN [ok |-> FALSE, gets |-> attempt + 1,
                              errors |-> << ErrorText(outcome, url) >>]
                     ELSE SafeRequestFrom(url, script, attempt + 1, retries)
             ELSE [ok |-> FALSE, gets |-> attempt + 1,
                   errors |-> << ErrorText(outcome, url) >>]

safe_request(url, script) == SafeRequestFrom(url, script, 0, max_retries)

(***************************************************************************)
(* extract_full_article.  A page is what the HTML parser finds in it: the  *)
(* selectors that match with the text get_text gives for the first match   *)
(* of each, and the text of body when there is one.                        *)
(***************************************************************************)
content_selectors ==
    << "article", ".article-content", ".post-content", ".entry-content",
       ".content", "main", ".main", ".story", ".article-body" >>

\* for selector in content_selectors: the first selector with a match gives
\* the content, whatever its text; the loop stops there.
RECURSIVE SelectContentFrom(_, _)
SelectContentFrom(doc, n) ==
    IF n > Len(content_selectors) THEN ""
    ELSE IF content_selectors[n] \in DOMAIN doc.elems
            THEN doc.elems[content_selectors[n]]
         ELSE SelectContentFrom(doc, n + 1)

\* if not content: fall back to the text of body, when there is a body.
PageContent(doc) ==
    LET content == SelectContentFrom(doc, 1)
    IN  IF content # "" THEN content
        ELSE IF doc.has_body THEN doc.body ELSE ""

\* str(e) of an exception of the HTML parser.
ParserError == "parser failure"

\* RobustNewsScraper.extract_full_article
Robust_extract_full_article(url, script, doc) ==
    LET response == safe_request(url, script)
    IN  IF ~response.ok THEN "Could not fetch article content"
        ELSE IF doc.parse_raises THEN "Error extracting content: " \o ParserError
        ELSE LET content == Robust_clean_text(PageContent(doc))
             IN  IF content # "" THEN content ELSE "No content extracted"

\* SimpleNewsScraper.extract_full_article: one GET; an exception of the GET
\* is caught like every other one.
Simple_extract_full_article(url, script, doc) ==
    IF script[1] \in {"timeout", "connection", "request_error", "unexpected"}
        THEN "Error extracting content: " \o script[1]
    ELSE IF script[1] # "ok" THEN "Could not fetch article content"
    ELSE IF doc.parse_raises THEN "Error extracting content: " \o ParserError
    ELSE Simple_clean_text(PageContent(doc))

extract_full_article(class, url, script, doc) ==
    IF class = "Robust" THEN Robust_extract_full_article(url, script, doc)
    ELSE Simple_extract_full_article(url, script, doc)

(***************************************************************************)
(* The feed lists of the two classes (self.sources), in dict order.        *)
(***************************************************************************)
Robust_defense_feeds ==
    << "https://defence.in/feed/",
       "https://www.defencexp.com/feed/",
       "https://www.defensenews.com/rss/",
       "https://www.janes.com/feeds/defence-news",
       "https://www.forceindia.net/rss.xml",
       "https://www.livefistdefence.com/feeds/posts/default",
       "https://timesofindia.indiatimes.com/india/rssfeeds/296589292.cms",
       "https://www.thehindu.com/news/national/feeder/default.rss",
       "https://indianexpress.com/section/india/feed/",
       "https://www.hindustantimes.com/rss/india-news/rssfeed.xml",
       "https://www.news18.com/rss/india.xml",
       "https://zeenews.india.com/rss/india-national-news.xml",
       "https://economictimes.indiatimes.com/defence/rssfeeds/50355294.cms",
       "https://www.business-standard.com/rss/current-affairs-106.rss" >>

Robust_space_feeds ==
    << "https://spacenews.com/feed/",
       "https://spaceflightnow.com/feed/",
       "https://www.space.com/feeds/all",
       "https://www.spacedaily.com/spacedaily.xml",
       "https://www.thehindu.com/sci-tech/science/feeder/default.rss",
       "https://timesofindia.indiatimes.com/rssfeeds/66949542.cms",
       "https://indianexpress.com/section/technology/science/feed/",
       "https://economictimes.indiatimes.com/industry/aerospace/defence/rssfeeds/13352306.cms",
       "https://zeenews.india.com/rss/technology-news.xml",
       "https://www.livemint.com/rss/technology",
       "https://economictimes.indiatimes.com/tech/technology/rssfeeds/13357270.cms" >>

Simple_defense_feeds ==
    << "https://idrw.org/feed/",
       "https://defence.in/feed/",
       "https://www.indiandefensenews.in/feed/" >>

Simple_space_feeds ==
    << "https://www.isro.gov.in/rss.xml" >>

Take(seq, n) == SubSeq(seq, 1, IF Len(seq) < n THEN Len(seq) ELSE n)

InCategory(category, urls) ==
    [i \in 1..Len(urls) |-> [category |-> category, url |-> urls[i]]]

\* for category, feeds in self.sources.items(): for feed_url in feeds:
\* the (category, url) pairs in loop order, the first MaxFeedsPerCategory
\* feeds of each category.
sources(class) ==
    IF class = "Robust"
        THEN InCategory("Defense News", Take(Robust_defense_feeds, MaxFeedsPerCategory))
             \o InCategory("Space News", Take(Robust_space_feeds, MaxFeedsPerCategory))
    ELSE InCategory("Defense News", Take(Simple_defense_feeds, MaxFeedsPerCategory))
         \o InCategory("Space News", Take(Simple_space_feeds, MaxFeedsPerCategory))

(***************************************************************************)
(* Feed entries.  An entry is a dict: has is the set of keys it carries.   *)
(* age is the age of its publish date in half days, date_valid tells       *)
(* whether building a datetime from published_parsed succeeds, script and  *)
(* doc are what the network and the page behind its link give.             *)
(***************************************************************************)
EntryGet(e, key, default) == IF key \in e.has THEN e[key] ELSE default

\* strftime("%d %B %Y") of the day that lies the given number of whole days
\* before the processing time; "now" is the day of the processing time.
FormatDay(days_ago) ==
    IF days_ago = 0 THEN "now" ELSE ToString(days_ago) \o " days before now"

\* entry.get('published_parsed'): None, or the time.struct_time feedparser
\* made of the entry's publish date.
PublishedParsed(e) ==
    IF "published_parsed" \in e.has
        THEN [kind |-> "struct_time", days_ago |-> e.age \div 2]
    ELSE [kind |-> "none", days_ago |-> 0]

\* parse_date(date_string) on a value: None gives the processing time; an
\* object with a timetuple attribute (a datetime) and a str in one of the four
\* formats give their own day; anything else, a time.struct_time included
\* (it has no timetuple attribute and is no str), falls through to the
\* processing time.
ParseDateValue(v) ==
    IF v.kind = "none" THEN FormatDay(0)
    ELSE IF v.kind = "datetime" THEN FormatDay(v.days_ago)
    ELSE IF v.kind = "str" THEN FormatDay(v.days_ago)
    ELSE FormatDay(0)

\* parse_date(entry.get('published_parsed'))
parse_date(e) == ParseDateValue(PublishedParsed(e))

\* if pub_date < cutoff_date, with cutoff_date = now - timedelta(days=days_back)
Robust_too_old(e, days) == e.age > 2 * days

\* if (datetime.now() - pub_date).days > 7
Simple_too_old(e) == e.age \div 2 > 7

\* A variant of the article record that files every article under "Unknown".
ArticleUncategorised(title, url, content, date, source, category) ==
    [title |-> title, url |-> url, content |-> content, date |-> date,
     source |-> source, category |-> "Unknown"]

Article(title, url, content, date, source, category) ==
    [title |-> title, url |-> url, content |-> content, date |-> date,
     source |-> source, category |-> category]

\* RobustNewsScraper.scrape_rss_feeds, the body of the entry loop: the fate of
\* one entry and the article it gives, if any.
Robust_process_entry(e, feed, days) ==
    IF "published_parsed" \in e.has /\ ~e.date_valid
        THEN [fate |-> "skipped_bad_date", new |-> << >>, errors |-> << >>]
    ELSE IF "published_parsed" \in e.has /\ Robust_too_old(e, days)
        THEN [fate |-> "skipped_old", new |-> << >>, errors |-> << >>]
    ELSE IF ~Robust_is_relevant_article(EntryGet(e, "title", ""), EntryGet(e, "summary", ""))
        THEN [fate |-> "rejected", new |-> << >>, errors |-> << >>]
    ELSE [fate |-> "accepted",
          new |-> << Article(EntryGet(e, "title", "No title"),
                             EntryGet(e, "link", ""),
                             Robust_extract_full_article(EntryGet(e, "link", ""),
                                                         e.script, e.doc),
                             parse_date(e), feed.url, feed.category) >>,
          \* the safe_request of the extraction records its failure
          errors |-> safe_request(EntryGet(e, "link", ""), e.script).errors]

\* SimpleNewsScraper.scrape_rss_feeds, the body of the entry loop.  entry.title
\* and entry.link raise AttributeError when the key is missing, and datetime()
\* raises on a bad time tuple: the exception leaves the loop of this feed.
Simple_process_entry(e, feed) ==
    IF "published_parsed" \in e.has /\ ~e.date_valid
        THEN [fate |-> "raised", new |-> << >>, errors |-> << >>]
    ELSE IF "published_parsed" \in e.has /\ Simple_too_old(e)
        THEN [fate |-> "skipped_old", new |-> << >>, errors |-> << >>]
    ELSE IF "title" \notin e.has
        THEN [fate |-> "raised", new |-> << >>, errors |-> << >>]
    ELSE IF ~Simple_is_relevant_article(e.title, EntryGet(e, "summary", ""))
        THEN [fate |-> "rejected", new |-> << >>, errors |-> << >>]
    ELSE IF "link" \notin e.has
        THEN [fate |-> "raised", new |-> << >>, errors |-> << >>]
    ELSE [fate |-> "accepted",
          new |-> << Article(e.title, e.link,
                             Simple_extract_full_article(e.link, e.script, e.doc),
                             parse_date(e), feed.url, feed.category) >>,
          errors |-> << >>]

process_entry(class, e, feed, days) ==
    IF class = "Robust" THEN Robust_process_entry(e, feed, days)
    ELSE Simple_process_entry(e, feed)

entries_per_feed == 10

\* for entry in feed.entries[:10]: the fates of the entries in order and the
\* articles appended; an exception ends the loop (the entries after it are
\* not processed).
RECURSIVE ProcessEntriesFrom(_, _, _, _, _)
ProcessEntriesFrom(class, entries, n, feed, days) ==
    IF n > Len(entries) \/ n > entries_per_feed
        THEN [fates |-> << >>, new |-> << >>, errors |-> << >>, raised |-> FALSE]
    ELSE LET one == process_entry(class, entries[n], feed, days)
         IN  IF one.fate = "raised"
                THEN [fates |-> << "raised" >>, new |-> << >>, errors |-> << >>,
                      raised |-> TRUE]
             ELSE LET rest == ProcessEntriesFrom(class, entries, n + 1, feed, days)
                  IN  [fates |-> << one.fate >> \o rest.fates,
                       new |-> one.new \o rest.new,
                       errors |-> one.errors \o rest.errors,
                       raised |-> rest.raised]

ProcessEntries(class, entries, feed, days) ==
    ProcessEntriesFrom(class, entries, 1, feed, days)

(***************************************************************************)
(* RobustNewsScraper.remove_duplicates.                                    *)
(***************************************************************************)
WordChars ==
    {"a", "b", "c", "d", "e", "f", "g", "h", "i", "j", "k", "l", "m", "n", "o", "p",
     "q", "r", "s", "t", "u", "v", "w", "x", "y", "z", "0", "1", "2", "3", "4", "5",
     "6", "7", "8", "9", "_"}
     \cup DOMAIN UpperToLower

\* re.sub(r'[^\w\s]', '', s): only word characters and whitespace stay.
RemovePunctuation(s) ==
    Keep(s, {i \in 1..Len(s) : CharAt(s, i) \in WordChars \cup Whitespace})

\* Positions where a whitespace-separated token of s starts.
TokenStarts(s) ==
    {i \in 1..Len(s) :
        /\ CharAt(s, i) \notin Whitespace
        /\ (i = 1 \/ CharAt(s, i - 1) \in Whitespace)}

\* Every whitespace character of s as a single space.
RECURSIVE AsSpaces(_)
AsSpaces(s) ==
    IF Len(s) = 0 THEN ""
    ELSE IF Len(s) = 1 THEN (IF s \in Whitespace THEN " " ELSE s)
    ELSE LET h == Len(s) \div 2
         IN  AsSpaces(SubSeq(s, 1, h)) \o AsSpaces(SubSeq(s, h + 1, Len(s)))

title_key_words == 5

\* ' '.join(s.split()[:5]): the first 5 tokens of s, single spaces between.
FirstTokens(s) ==
    LET starts == TokenStarts(s)
        cut == IF Cardinality(starts) <= title_key_words THEN Len(s)
               ELSE (CHOOSE i \in starts :
                        Cardinality({j \in starts : j < i}) = title_key_words) - 1
        head == AsSpaces(SubSeq(s, 1, cut))
    IN  Strip(CollapseRuns(head, " "))

title_key(title) == FirstTokens(RemovePunctuation(Lower(title)))

\* A variant of the loop that never records a key as seen.
RECURSIVE RemoveDuplicatesForgetful(_, _, _)
RemoveDuplicatesForgetful(list, n, seen_titles) ==
    IF n > Len(list) THEN << >>
    ELSE IF Strip(title_key(list[n].title)) # ""
        THEN << list[n] >> \o RemoveDuplicatesForgetful(list, n + 1, seen_titles)
    ELSE RemoveDuplicatesForgetful(list, n + 1, seen_titles)

\* for article in articles: keep it when its key is new and not blank.
RECURSIVE RemoveDuplicatesFrom(_, _, _)
RemoveDuplicatesFrom(list, n, seen_titles) ==
    IF n > Len(list) THEN << >>
    ELSE LET key == title_key(list[n].title)
         IN  IF key \notin seen_titles /\ Strip(key) # ""
                THEN << list[n] >> \o RemoveDuplicatesFrom(list, n + 1, seen_titles \cup {key})
             ELSE RemoveDuplicatesFrom(list, n + 1, seen_titles)

remove_duplicates(list) == RemoveDuplicatesFrom(list, 1, {})

(***************************************************************************)
(* What the network can give in a run: pages, entries, feeds, fetch        *)
(* scripts, and the press-release feeds of the alternative sources.        *)
(***************************************************************************)
ArticlePage ==
    [elems |-> ("article" :> "DRDO tested a missile.\nIt flew."),
     has_body |-> TRUE, body |-> "Home\nDRDO tested a missile.", parse_raises |-> FALSE]

EntryDrdo ==
    [has |-> {"title", "summary", "link", "published_parsed"},
     title |-> "DRDO Tests New Missile System", summary |-> "",
     link |-> "https://example.org/drdo", age |-> 1, date_valid |-> TRUE,
     script |-> << "ok", "ok", "ok" >>, doc |-> ArticlePage]

EntryUntitled ==
    [has |-> {"summary"},
     title |-> "", summary |-> "drdo test", link |-> "", age |-> 0, date_valid |-> TRUE,
     script |-> << "request_error", "ok", "ok" >>, doc |-> ArticlePage]

EntryBollywood ==
    [has |-> {"title", "summary", "link"},
     title |-> "Bollywood Star Attends Cricket Match, mentions Indian Army uniform sponsor",
     summary |-> "", link |-> "https://example.org/star", age |-> 0, date_valid |-> TRUE,
     script |-> << "http404", "http404", "http404" >>, doc |-> ArticlePage]

EntryOld ==
    [has |-> {"title", "summary", "link", "published_parsed"},
     title |-> "DRDO Tests New Missile System", summary |-> "",
     link |-> "https://example.org/drdo-old", age |-> 62, date_valid |-> TRUE,
     script |-> << "ok", "ok", "ok" >>, doc |-> ArticlePage]

EntryLists ==
    { << >>, << EntryDrdo >>, << EntryBollywood, EntryOld >>,
      << EntryUntitled, EntryDrdo >> }

FeedScripts ==
    { << "ok", "ok", "ok" >>, << "timeout", "ok", "ok" >>,
      << "http404", "http404", "http404" >> }

AlternativeWorlds ==
    { [script |-> << "ok", "ok", "ok" >>, parse_raises |-> FALSE,
       entries |-> << EntryDrdo >>],
      [script |-> << "ok", "ok", "ok" >>, parse_raises |-> FALSE,
       entries |-> << EntryBollywood >>],
      [script |-> << "timeout", "timeout", "timeout" >>, parse_raises |-> FALSE,
       entries |-> << >>] }

DaysBackChoices == {7}

Classes == {"Robust", "Simple"}

AllFeeds == UNION {{sources(c)[i] : i \in 1..Len(sources(c))} : c \in Classes}

\* ProcessEntries on every input of the model, computed once.
ProcessedEntries ==
    [c \in Classes, entries \in EntryLists, feed \in AllFeeds, days \in DaysBackChoices |->
        ProcessEntries(c, entries, feed, days)]

(***************************************************************************)
(* RobustNewsScraper.try_alternative_sources.  A world is what one of the  *)
(* two press-release feeds gives: the script of its fetch and its entries. *)
(***************************************************************************)
alternative_entries == 5

\* The loop over feed.entries[:5] of one alternative feed.  entry.title and
\* entry.link raise AttributeError when the key is missing; the except of the
\* branch ends the loop and keeps the articles appended before.
RECURSIVE AlternativeEntriesFrom(_, _, _, _, _)
AlternativeEntriesFrom(entries, n, keywords, source, category) ==
    IF n > Len(entries) \/ n > alternative_entries THEN [new |-> << >>, errors |-> << >>]
    ELSE LET e == entries[n]
         IN  IF "title" \notin e.has THEN [new |-> << >>, errors |-> << >>]
             ELSE IF ~AnyMatch(keywords, Lower(e.title))
                THEN AlternativeEntriesFrom(entries, n + 1, keywords, source, category)
             ELSE IF "link" \notin e.has THEN [new |-> << >>, errors |-> << >>]
             ELSE LET rest == AlternativeEntriesFrom(entries, n + 1, keywords, source,
                                                      category)
                  IN  [new |-> << Article(e.title, e.link,
                                          Robust_extract_full_article(e.link, e.script,
                                                                      e.doc),
                                          parse_date(e), source, category) >>
                               \o rest.new,
                       errors |-> safe_request(e.link, e.script).errors \o rest.errors]

\* One branch: the fetch of the press-release feed, then its entries.
AlternativeBranch(url, world, keywords, source, category) ==
    LET response == safe_request(url, world.script)
    IN  IF ~response.ok THEN [new |-> << >>, errors |-> response.errors]
        ELSE IF world.parse_raises THEN [new |-> << >>, errors |-> << >>]
        ELSE AlternativeEntriesFrom(world.entries, 1, keywords, source, category)

pib_url == "https://pib.gov.in/RssMain.aspx?ModId=7&Lang=1"
mod_url == "https://pib.gov.in/RssMain.aspx?ModId=8&Lang=1"

\* The branch for blocked ISRO content, lines 480-499.
pib_branch(world) ==
    AlternativeBranch(pib_url, world, << "isro", "space", "satellite", "launch" >>,
                      "PIB (Alternative for ISRO)", "Space News")

\* The branch for defense news, lines 502-521.
mod_branch(world) ==
    AlternativeBranch(mod_url, world, Take(high_priority_defense, 10),
                      "MoD PIB (Alternative)", "Defense News")

\* The two branches on every world of the model, computed once.
PibBranch == [w \in AlternativeWorlds |-> pib_branch(w)]
ModBranch == [w \in AlternativeWorlds |-> mod_branch(w)]

\* word in url.lower(), for every feed of the model and the words
\* try_alternative_sources looks for, computed once.
UrlContains ==
    [url \in {feed.url : feed \in AllFeeds} \cup {Robust_defense_feeds[3]}, word \in {"isro", "defense", "idrw"} |->
        Contains(word, Lower(url))]

AnyUrlContains(urls, word) ==
    \E i \in 1..Len(urls) : UrlContains[urls[i], word]

try_alternative_sources(failed, pib, mod) ==
    LET isro == IF AnyUrlContains(failed, "isro") THEN PibBranch[pib]
                ELSE [new |-> << >>, errors |-> << >>]
        defence == IF AnyUrlContains(failed, "defense") \/ AnyUrlContains(failed, "idrw")
                       THEN ModBranch[mod]
                   ELSE [new |-> << >>, errors |-> << >>]
    IN  [new |-> isro.new \o defence.new, errors |-> isro.errors \o defence.errors]

(***************************************************************************)
(* generate_simple_report as run_scraper calls it.                         *)
(***************************************************************************)
\* RobustNewsScraper.generate_simple_report(articles, days_back).  With
\* articles it calls self.generate_company_summary, which RobustNewsScraper
\* does not define (the body of that method sits after the return of
\* try_alternative_sources): AttributeError.
Robust_generate_simple_report(list, days) ==
    IF list = << >>
        THEN [raises |-> FALSE,
              text |-> "No articles found for the last " \o ToString(days) \o " days."]
    ELSE [raises |-> TRUE, text |-> ""]

\* SimpleNewsScraper.run_scraper calls self.generate_simple_report(articles)
\* with one argument; the definition in force takes (articles, days_back):
\* TypeError.
Simple_generate_simple_report_call(list) == [raises |-> TRUE, text |-> ""]

(***************************************************************************)
(* Inputs of extract_full_article.                                         *)
(***************************************************************************)
PageTexts == {"", "DRDO tested a missile.\nIt flew.", "Advertisement", " \n"}

ProbedSelectors == {"article", ".content"}

PagePool ==
    {[elems |-> e, has_body |-> hb, body |-> b, parse_raises |-> pr] :
        e \in UNION {[sel -> PageTexts] : sel \in SUBSET ProbedSelectors},
        hb \in BOOLEAN, b \in PageTexts, pr \in BOOLEAN}

GetOutcomes == {"ok", "timeout", "http404", "http500"}

FetchScripts == [1..max_retries -> GetOutcomes]

(***************************************************************************)
(* Inputs of the classifier: titles of up to MaxTitleWords fragments       *)
(* joined by single spaces, summaries of at most one fragment.             *)
(***************************************************************************)
WordPool ==
    { "DRDO Tests New Missile System",
      "Bollywood Star Attends Cricket Match, mentions Indian Army uniform sponsor",
      "fleet", "squadron", "army", "military", "data", "network", "training",
      "Space" }

JoinWord(p, w) == IF p = "" THEN w ELSE p \o " " \o w

RECURSIVE Phrases(_)
Phrases(n) ==
    IF n = 0 THEN {""}
    ELSE Phrases(n - 1) \cup {JoinWord(p, w) : p \in Phrases(n - 1), w \in WordPool}

TitlePool == Phrases(MaxTitleWords)
SummaryPool == Phrases(1) \cup {"drdo test"}

(***************************************************************************)
(* Idle values: what a specification leaves untouched.                     *)
(***************************************************************************)
NoFeed == [url |-> "", category |-> "", entries |-> << >>, fates |-> << >>]

StatsInit ==
    [total_feeds_processed |-> 0, successful_feeds |-> 0, failed_feeds |-> 0,
     total_articles_found |-> 0, relevant_articles |-> 0, errors |-> << >>]

RunIdle ==
    /\ impl = "none"
    /\ pc = "idle"
    /\ days_back = 0
    /\ feedIdx = 0
    /\ stats = StatsInit
    /\ articles = << >>
    /\ failed_urls = << >>
    /\ attempted = << >>
    /\ lastFeed = NoFeed
    /\ report = ""
    /\ saved = "not_called"
    /\ exitCode = -1

ClassifyIdle == classify = [title |-> "", content |-> "", by |-> "idle", accepted |-> FALSE]
CleanIdle == clean = [input |-> "", text |-> "", calls |-> 0, previous |-> ""]
ExtractIdle == extract = [by |-> "idle", result |-> ""]
CallIdle == call = [fn |-> "none"]

(***************************************************************************)
(* SpecClassify: one call of is_relevant_article of either class on a      *)
(* (title, summary) pair.                                                  *)
(***************************************************************************)
ClassifyInit ==
    /\ RunIdle /\ CleanIdle /\ ExtractIdle /\ CallIdle
    /\ classify \in {[title |-> t, content |-> s, by |-> "none", accepted |-> FALSE] :
                        t \in TitlePool, s \in SummaryPool}

ClassifyRobust ==
    /\ classify.by = "none"
    /\ classify' = [classify EXCEPT
                      !.by = "Robust",
                      !.accepted = Robust_is_relevant_article(classify.title, classify.content)]
    /\ UNCHANGED << runVars, clean, extract, call >>

ClassifySimple ==
    /\ classify.by = "none"
    /\ classify' = [classify EXCEPT
                      !.by = "Simple",
                      !.accepted = Simple_is_relevant_article(classify.title, classify.content)]
    /\ UNCHANGED << runVars, clean, extract, call >>

ClassifyNext == ClassifyRobust \/ ClassifySimple

SpecClassify == ClassifyInit /\ [][ClassifyNext]_vars

(***************************************************************************)
(* Properties of the classifier, stated on the characters of the text.     *)
(***************************************************************************)
ClassifiedText == Lower(classify.title \o " " \o classify.content)

InSeq(x, seq) == \E i \in 1..Len(seq) : seq[i] = x

HasExclusionTerm(text) ==
    \E i \in 1..Len(exclusion_keywords) : Contains(exclusion_keywords[i], text)

HasHighPriorityTerm(text) ==
    \/ \E i \in 1..Len(high_priority_defense) : Contains(high_priority_defense[i], text)
    \/ \E i \in 1..Len(high_priority_space) : Contains(high_priority_space[i], text)

GeneralVocabulary == defense_keywords \o space_keywords
CoreContextTerms == defense_context_terms \o space_context_terms

MatchedGeneral(text) ==
    {i \in 1..Len(GeneralVocabulary) : Contains(GeneralVocabulary[i], text)}

\* C6: is_relevant_article rejects whenever the title is empty, whatever the
\* summary holds (the statement of the claim; the code accepts on the summary).
C6_EmptyTitleRejected ==
    (classify.by \in {"Robust", "Simple"} /\ classify.title = "")
        => ~classify.accepted

\* C7: exclusion is a hard veto with threshold 1: a text holding at least one
\* exclusion keyword is rejected by RobustNewsScraper.is_relevant_article,
\* whatever high-priority or general keywords it also holds.
C7_ExclusionIsHardVeto ==
    (classify.by = "Robust" /\ HasExclusionTerm(ClassifiedText))
        => ~classify.accepted

\* C7 witness: a rejected text that holds an exclusion keyword and a
\* high-priority keyword, and general keywords with a context term.
C7_Witness ==
    /\ classify.by = "Robust"
    /\ HasExclusionTerm(ClassifiedText)
    /\ HasHighPriorityTerm(ClassifiedText)
    /\ Cardinality(MatchedGeneral(ClassifiedText)) >= 2
    /\ ~classify.accepted

\* C9 as stated: without exclusion and high-priority terms, accepted iff at
\* least 2 general vocabulary entries match and one of the MATCHED vocabulary
\* keywords is a core-context term.
C9_Original ==
    (/\ classify.by = "Robust"
     /\ ~HasExclusionTerm(ClassifiedText)
     /\ ~HasHighPriorityTerm(ClassifiedText))
        => (classify.accepted <=>
              /\ Cardinality(MatchedGeneral(ClassifiedText)) >= 2
              /\ \E i \in MatchedGeneral(ClassifiedText) :
                     InSeq(GeneralVocabulary[i], CoreContextTerms))

\* C9 amended: without exclusion and high-priority terms, accepted iff at
\* least 2 general vocabulary entries match and the text holds at least one
\* core-context term, whether or not that term is a vocabulary keyword; fewer
\* than 2 general matches are always rejected.
C9_GeneralScoring ==
    (/\ classify.by = "Robust"
     /\ ~HasExclusionTerm(ClassifiedText)
     /\ ~HasHighPriorityTerm(ClassifiedText))
        => /\ classify.accepted <=>
                /\ Cardinality(MatchedGeneral(ClassifiedText)) >= 2
                /\ \E i \in 1..Len(CoreContextTerms) :
                       Contains(CoreContextTerms[i], ClassifiedText)
           /\ Cardinality(MatchedGeneral(ClassifiedText)) < 2 => ~classify.accepted

\* C9 witness: accepted by the general score on a space context term.
C9_Witness ==
    /\ classify.by = "Robust"
    /\ ~HasExclusionTerm(ClassifiedText)
    /\ ~HasHighPriorityTerm(ClassifiedText)
    /\ Cardinality(MatchedGeneral(ClassifiedText)) >= 2
    /\ Contains("space", ClassifiedText)
    /\ classify.accepted

(***************************************************************************)
(* SpecClean: clean_text applied to a text, then to its own result.        *)
(***************************************************************************)
CleanInit ==
    /\ RunIdle /\ ClassifyIdle /\ ExtractIdle /\ CallIdle
    /\ clean \in {[input |-> x, text |-> x, calls |-> 0, previous |-> ""] :
                     x \in CleanInputs}

CleanRobust ==
    /\ clean.calls < 2
    /\ clean' = [clean EXCEPT !.text = Robust_clean_text(clean.text),
                              !.previous = clean.text,
                              !.calls = clean.calls + 1]
    /\ UNCHANGED << runVars, classify, extract, call >>

CleanSimple ==
    /\ clean.calls < 2
    /\ clean' = [clean EXCEPT !.text = Simple_clean_text(clean.text),
                              !.previous = clean.text,
                              !.calls = clean.calls + 1]
    /\ UNCHANGED << runVars, classify, extract, call >>

CleanNext == CleanRobust \/ CleanSimple

SpecClean == CleanInit /\ [][CleanNext]_vars

\* C10: clean_text is idempotent: cleaning a cleaned text changes nothing (the
\* statement of the claim; the code leaves the newlines around a removed line).
C10_Idempotent == clean.calls = 2 => clean.text = clean.previous

(***************************************************************************)
(* SpecExtract: one call of extract_full_article of either class, on a     *)
(* page and a network script.                                              *)
(***************************************************************************)
ExtractInit ==
    /\ RunIdle /\ ClassifyIdle /\ CleanIdle /\ CallIdle
    /\ extract \in {[by |-> "none", result |-> "", url |-> "https://example.org/a",
                      script |-> sc, doc |-> d] :
                        sc \in FetchScripts, d \in PagePool}

ExtractRobust ==
    /\ extract.by = "none"
    /\ extract' = [extract EXCEPT
                     !.by = "Robust",
                     !.result = Robust_extract_full_article(extract.url, extract.script,
                                                            extract.doc)]
    /\ UNCHANGED << runVars, classify, clean, call >>

ExtractSimple ==
    /\ extract.by = "none"
    /\ extract' = [extract EXCEPT
                     !.by = "Simple",
                     !.result = Simple_extract_full_article(extract.url, extract.script,
                                                            extract.doc)]
    /\ UNCHANGED << runVars, classify, clean, call >>

ExtractNext == ExtractRobust \/ ExtractSimple

SpecExtract == ExtractInit /\ [][ExtractNext]_vars

\* C5: extract_full_article returns a non-empty string for every URL and
\* every fetch outcome, in both classes (the statement of the claim;
\* SimpleNewsScraper returns the cleaned content even when it is empty).
C5_NeverEmpty ==
    extract.by \in {"Robust", "Simple"} => extract.result # ""

(***************************************************************************)
(* Spec: one run of run_scraper of either class.                           *)
(*                                                                         *)
(* What the network gives is chosen at each fetch: the script of the       *)
(* feed's GETs, whether feedparser raises, and the entries of the feed.    *)
(***************************************************************************)
Init ==
    /\ impl \in {"Robust", "Simple"}
    /\ pc = "harvest"
    /\ days_back \in (IF impl = "Robust" THEN DaysBackChoices ELSE {7})
    /\ feedIdx = 1
    /\ stats = StatsInit
    /\ articles = << >>
    /\ failed_urls = << >>
    /\ attempted = << >>
    /\ lastFeed = NoFeed
    /\ report = ""
    /\ saved = "not_called"
    /\ exitCode = -1
    /\ ClassifyIdle /\ CleanIdle /\ ExtractIdle /\ CallIdle

CurrentFeed == sources(impl)[feedIdx]

InHarvest == pc = "harvest" /\ feedIdx <= Len(sources(impl))

\* A variant in which a failed feed ends the loop.
AfterFailedFeedStops(i, n) == n + 1

\* The feed index after a feed whose fetch or parse failed: the loop goes on
\* with the next feed (the continue of line 394, the except clauses).
AfterFailedFeed(i, n) == i + 1

Attempt(outcome) == Append(attempted, [url |-> CurrentFeed.url, outcome |-> outcome])

\* The fetch of the feed fails.  Robust: safe_request returns None.  Simple:
\* the GET raises, or its status is not 200.
HarvestFetchFails ==
    /\ InHarvest
    /\ \E script \in FeedScripts :
         IF impl = "Robust"
            THEN LET response == safe_request(CurrentFeed.url, script)
                 IN  /\ ~response.ok
                     /\ stats' = [stats EXCEPT
                            !.total_feeds_processed = @ + 1,
                            !.failed_feeds = @ + 1,
                            !.errors = @ \o response.errors]
                     /\ failed_urls' = Append(failed_urls, CurrentFeed.url)
            ELSE /\ script[1] # "ok"
                 /\ UNCHANGED << stats, failed_urls >>
    /\ attempted' = Attempt("fetch_failed")
    /\ feedIdx' = AfterFailedFeed(feedIdx, Len(sources(impl)))
    /\ UNCHANGED << impl, pc, days_back, articles, lastFeed, report, saved, exitCode,
                    classify, clean, extract, call >>

\* A variant of the failing parse in which the feed is counted as successful
\* before the parser raises.
HarvestParseFailsCountedTwice ==
    /\ InHarvest
    /\ \E script \in FeedScripts :
         IF impl = "Robust" THEN safe_request(CurrentFeed.url, script).ok
         ELSE script[1] = "ok"
    /\ IF impl = "Robust"
          THEN stats' = [stats EXCEPT
                  !.total_feeds_processed = @ + 1,
                  !.successful_feeds = @ + 1,
                  !.failed_feeds = @ + 1,
                  !.errors = Append(@, "Feed parsing error " \o CurrentFeed.url)]
          ELSE UNCHANGED stats
    /\ attempted' = Attempt("parse_failed")
    /\ feedIdx' = AfterFailedFeed(feedIdx, Len(sources(impl)))
    /\ UNCHANGED << impl, pc, days_back, articles, failed_urls, lastFeed, report, saved,
                    exitCode, classify, clean, extract, call >>

\* The fetch succeeds and feedparser.parse raises.  Robust: the inner except
\* records the error and counts the feed as failed.  Simple: the except of the
\* feed prints it.
HarvestParseFails ==
    /\ InHarvest
    /\ \E script \in FeedScripts :
         IF impl = "Robust" THEN safe_request(CurrentFeed.url, script).ok
         ELSE script[1] = "ok"
    /\ IF impl = "Robust"
          THEN stats' = [stats EXCEPT
                  !.total_feeds_processed = @ + 1,
                  !.failed_feeds = @ + 1,
                  !.errors = Append(@, "Feed parsing error " \o CurrentFeed.url)]
          ELSE UNCHANGED stats
    /\ attempted' = Attempt("parse_failed")
    /\ feedIdx' = AfterFailedFeed(feedIdx, Len(sources(impl)))
    /\ UNCHANGED << impl, pc, days_back, articles, failed_urls, lastFeed, report, saved,
                    exitCode, classify, clean, extract, call >>

\* The fetch succeeds and the feed parses: its entries are processed in
\* order.  Robust counts the feed as successful before it looks at the
\* entries.
HarvestFeedParsed ==
    /\ InHarvest
    /\ \E script \in FeedScripts :
         IF impl = "Robust" THEN safe_request(CurrentFeed.url, script).ok
         ELSE script[1] = "ok"
    /\ \E entries \in EntryLists :
         LET done == ProcessedEntries[impl, entries, CurrentFeed, days_back]
         IN  /\ Len(articles) + Len(done.new) <= MaxArticles
             /\ articles' = articles \o done.new
             /\ lastFeed' = [url |-> CurrentFeed.url, category |-> CurrentFeed.category,
                             entries |-> entries, fates |-> done.fates]
             /\ IF impl = "Robust"
                   THEN stats' = [stats EXCEPT
                           !.total_feeds_processed = @ + 1,
                           !.successful_feeds = @ + 1,
                           !.total_articles_found = @ + Len(done.fates),
                           !.relevant_articles = @ + Len(done.new),
                           !.errors = @ \o done.errors]
                   ELSE UNCHANGED stats
    /\ attempted' = Attempt("parsed")
    /\ feedIdx' = feedIdx + 1
    /\ UNCHANGED << impl, pc, days_back, failed_urls, report, saved, exitCode,
                    classify, clean, extract, call >>

\* Robust, after the loop: try_alternative_sources for the failed URLs, then
\* scrape_rss_feeds returns.
RobustFinishHarvest ==
    /\ impl = "Robust"
    /\ pc = "harvest"
    /\ feedIdx > Len(sources(impl))
    /\ \E pib \in AlternativeWorlds, mod \in AlternativeWorlds :
         LET alt == IF failed_urls # << >>
                        THEN try_alternative_sources(failed_urls, pib, mod)
                    ELSE [new |-> << >>, errors |-> << >>]
         IN  /\ articles' = articles \o alt.new
             /\ stats' = [stats EXCEPT !.errors = @ \o alt.errors]
    /\ pc' = "dedupe"
    /\ UNCHANGED << impl, days_back, feedIdx, failed_urls, attempted, lastFeed, report,
                    saved, exitCode, classify, clean, extract, call >>

\* articles = self.remove_duplicates(articles)
RobustRemoveDuplicates ==
    /\ impl = "Robust"
    /\ pc = "dedupe"
    /\ articles' = remove_duplicates(articles)
    /\ pc' = "report"
    /\ UNCHANGED << impl, days_back, feedIdx, stats, failed_urls, attempted, lastFeed,
                    report, saved, exitCode, classify, clean, extract, call >>

\* report = self.generate_simple_report(articles, days_back); an exception is
\* caught by run_scraper's except, which exits with code 1.
RobustGenerateReport ==
    /\ impl = "Robust"
    /\ pc = "report"
    /\ LET made == Robust_generate_simple_report(articles, days_back)
       IN  IF made.raises
              THEN /\ pc' = "done"
                   /\ exitCode' = 1
                   /\ UNCHANGED report
           ELSE /\ pc' = "save"
                /\ report' = made.text
                /\ UNCHANGED exitCode
    /\ UNCHANGED << impl, days_back, feedIdx, stats, articles, failed_urls, attempted,
                    lastFeed, saved, classify, clean, extract, call >>

\* filename = self.save_report(report, days_back): the write succeeds or
\* fails; save_report catches the failure and returns None.
RobustSaveReport ==
    /\ impl = "Robust"
    /\ pc = "save"
    /\ saved' \in {"written", "write_failed"}
    /\ pc' = "exit"
    /\ UNCHANGED << impl, days_back, feedIdx, stats, articles, failed_urls, attempted,
                    lastFeed, report, exitCode, classify, clean, extract, call >>

\* if self.stats['successful_feeds'] == 0: sys.exit(1) ... else sys.exit(0)
RobustExit ==
    /\ impl = "Robust"
    /\ pc = "exit"
    /\ exitCode' = IF stats.successful_feeds = 0 THEN 1 ELSE 0
    /\ pc' = "done"
    /\ UNCHANGED << impl, days_back, feedIdx, stats, articles, failed_urls, attempted,
                    lastFeed, report, saved, classify, clean, extract, call >>

\* Simple, after the loop: if not articles: return.  run_scraper returns to
\* run_manual and the process ends with code 0.
SimpleReturnNoArticles ==
    /\ impl = "Simple"
    /\ pc = "harvest"
    /\ feedIdx > Len(sources(impl))
    /\ articles = << >>
    /\ pc' = "done"
    /\ exitCode' = 0
    /\ UNCHANGED << impl, days_back, feedIdx, stats, articles, failed_urls, attempted,
                    lastFeed, report, saved, classify, clean, extract, call >>

\* Simple, with articles: the call of generate_simple_report raises, nothing
\* catches it and the process ends with a traceback, code 1.
SimpleGenerateReport ==
    /\ impl = "Simple"
    /\ pc = "harvest"
    /\ feedIdx > Len(sources(impl))
    /\ articles # << >>
    /\ LET made == Simple_generate_simple_report_call(articles)
       IN  IF made.raises
              THEN /\ pc' = "done"
                   /\ exitCode' = 1
                   /\ UNCHANGED << report, saved >>
           ELSE /\ pc' = "done"
                /\ report' = made.text
                /\ saved' = "written"
                /\ exitCode' = 0
    /\ UNCHANGED << impl, days_back, feedIdx, stats, articles, failed_urls, attempted,
                    lastFeed, classify, clean, extract, call >>

Next ==
    \/ HarvestFetchFails
    \/ HarvestParseFails
    \/ HarvestFeedParsed
    \/ RobustFinishHarvest
    \/ RobustRemoveDuplicates
    \/ RobustGenerateReport
    \/ RobustSaveReport
    \/ RobustExit
    \/ SimpleReturnNoArticles
    \/ SimpleGenerateReport

Spec == Init /\ [][Next]_vars

(***************************************************************************)
(* Properties of a run.                                                    *)
(***************************************************************************)
RunEnded == pc = "done"

Outcomes == {attempted[i].outcome : i \in 1..Len(attempted)}

\* C1: RobustNewsScraper.run_scraper exits with code 0 on every run in which
\* at least one feed was fetched and parsed, whatever the number of articles,
\* and with a non-zero code only when no feed succeeded (the statement of the
\* claim; a run with an article ends in the except clause with code 1).
C1_ExitZeroIffFeedSucceeded ==
    (impl = "Robust" /\ RunEnded)
        => (exitCode = 0 <=> stats.successful_feeds > 0)

\* C2: a run of either class that ends with no feed fetched and parsed exits
\* with a non-zero code (the statement of the claim; SimpleNewsScraper
\* returns normally).
C2_NoFeedSucceededExitsNonZero ==
    (impl \in Classes /\ RunEnded /\ "parsed" \notin Outcomes)
        => exitCode # 0

\* C3: every run of run_scraper reaches save_report with a non-empty report:
\* a run that has ended has called save_report on a non-empty string (the
\* statement of the claim; a run with articles ends before save_report).
C3_RunReachesSaveReport ==
    (impl \in Classes /\ RunEnded)
        => (saved # "not_called" /\ report # "")

\* C4: a failure of one feed never stops the loop of scrape_rss_feeds: the
\* feeds attempted so far are the configured feeds in configured order, each
\* once; when the loop is over every configured feed has been attempted; and
\* no article of the result has a feed whose fetch failed as its source.
C4_EveryFeedAttemptedOnceInOrder ==
    impl \in Classes =>
        /\ Len(attempted) <= Len(sources(impl))
        /\ \A i \in 1..Len(attempted) :
              (i <= Len(sources(impl))) => attempted[i].url = sources(impl)[i].url
        /\ (pc # "harvest") => Len(attempted) = Len(sources(impl))
        /\ \A i \in 1..Len(attempted) :
              attempted[i].outcome = "fetch_failed"
                  => \A k \in 1..Len(articles) : articles[k].source # attempted[i].url

\* C4 witness: the loop is over, a feed whose fetch failed was followed by a
\* feed that was parsed, and the result holds an article of a parsed feed.
C4_Witness ==
    /\ impl \in Classes
    /\ pc # "harvest"
    /\ \E i, j \in 1..Len(attempted) :
          /\ i < j
          /\ attempted[i].outcome = "fetch_failed"
          /\ attempted[j].outcome = "parsed"
          /\ \E k \in 1..Len(articles) : articles[k].source = attempted[j].url

DrdoTitle == "DRDO Tests New Missile System"

EntryText(e) == Lower(EntryGet(e, "title", "") \o " " \o EntryGet(e, "summary", ""))

HasHighPriorityDefenseTerm(text) ==
    \E i \in 1..Len(high_priority_defense) : Contains(high_priority_defense[i], text)

AllEntries == UNION {{list[i] : i \in 1..Len(list)} : list \in EntryLists}

\* For every entry of the model: its text holds a high-priority defense term
\* and no exclusion term.
HighPriorityEntry ==
    [e \in AllEntries |->
        /\ HasHighPriorityDefenseTerm(EntryText(e))
        /\ ~HasExclusionTerm(EntryText(e))]

\* The entries of the feed just parsed that passed the date filter and whose
\* text holds a high-priority defense term and no exclusion term.
HighPriorityEntries ==
    {i \in 1..Len(lastFeed.fates) :
        /\ lastFeed.fates[i] \notin {"skipped_old", "skipped_bad_date"}
        /\ HighPriorityEntry[lastFeed.entries[i]]}

\* C8 as stated: an entry titled "DRDO Tests New Missile System" with an
\* empty summary, and any entry with a high-priority defense term and no
\* exclusion term, is accepted and its article has category Defense,
\* whichever feed it was harvested from.
C8_Original ==
    impl = "Robust" =>
        /\ \A i \in HighPriorityEntries : lastFeed.fates[i] = "accepted"
        /\ \A k \in 1..Len(articles) :
              articles[k].title = DrdoTitle => articles[k].category = "Defense News"

\* C8 amended: such an entry is accepted through the high-priority gate
\* whichever feed it was harvested from, and the article of a feed has the
\* category under which that feed is configured (Defense News from a feed of
\* the defense list, Space News from a feed of the space list).
C8_AcceptedWithFeedCategory ==
    impl = "Robust" =>
        /\ \A i \in HighPriorityEntries : lastFeed.fates[i] = "accepted"
        /\ \A k \in 1..Len(articles) : \A f \in 1..Len(sources(impl)) :
              articles[k].source = sources(impl)[f].url
                  => articles[k].category = sources(impl)[f].category

\* C8 witness: the entry titled "DRDO Tests New Missile System" with an empty
\* summary was accepted from a feed of the space list and its article has
\* category Space News.
C8_Witness ==
    /\ impl = "Robust"
    /\ lastFeed.category = "Space News"
    /\ \E i \in HighPriorityEntries :
          /\ lastFeed.entries[i].title = DrdoTitle
          /\ lastFeed.entries[i].summary = ""
          /\ lastFeed.fates[i] = "accepted"
    /\ \E k \in 1..Len(articles) :
          /\ articles[k].title = DrdoTitle
          /\ articles[k].source = lastFeed.url
          /\ articles[k].category = "Space News"

(***************************************************************************)
(* SpecDedupe: one call of RobustNewsScraper.remove_duplicates on a list   *)
(* of articles.  The url of an article tells its place in the input.       *)
(***************************************************************************)
DedupeTitles ==
    { "ISRO Launches PSLV Rocket Successfully",
      "ISRO Launches PSLV Rocket Successfully Today",
      "isro launches: PSLV rocket, successfully!",
      "DRDO Tests New Missile System",
      "",
      "!!!" }

DedupeArticle(title, place) ==
    Article(title, "https://example.org/" \o ToString(place), "text", "now",
            "https://spacenews.com/feed/", "Space News")

DedupeInputs ==
    UNION {{[i \in 1..n |-> DedupeArticle(titles[i], i)] : titles \in [1..n -> DedupeTitles]}
           : n \in 0..MaxDedupeLen}

DedupeInit ==
    /\ call \in {[fn |-> "remove_duplicates", input |-> list, done |-> FALSE,
                  output |-> << >>] : list \in DedupeInputs}
    /\ RunIdle /\ ClassifyIdle /\ CleanIdle /\ ExtractIdle

DedupeCall ==
    /\ call.fn = "remove_duplicates"
    /\ ~call.done
    /\ call' = [call EXCEPT !.done = TRUE, !.output = remove_duplicates(call.input)]
    /\ UNCHANGED << runVars, classify, clean, extract >>

DedupeNext == DedupeCall

SpecDedupe == DedupeInit /\ [][DedupeNext]_vars

DedupeDone == call.fn = "remove_duplicates" /\ call.done

\* The place in the input of an article of the output.
PlaceIn(list, a) == CHOOSE k \in 1..Len(list) : list[k] = a

\* C11: remove_duplicates returns a subsequence of its input (every article
\* of the output is an article of the input, unaltered, in the input's
\* order) in which no two articles have the same key; the titles "ISRO
\* Launches PSLV Rocket Successfully" and "... Successfully Today" collapse
\* to the one that comes first.
C11_SubsequenceWithDistinctKeys ==
    DedupeDone =>
        /\ \A i \in 1..Len(call.output) : \E k \in 1..Len(call.input) :
              call.input[k] = call.output[i]
        /\ \A i, j \in 1..Len(call.output) :
              i < j => /\ PlaceIn(call.input, call.output[i])
                            < PlaceIn(call.input, call.output[j])
                       /\ title_key(call.output[i].title) # title_key(call.output[j].title)
        /\ \A i, j \in 1..Len(call.input) :
              (/\ i < j
               /\ call.input[i].title = "ISRO Launches PSLV Rocket Successfully"
               /\ call.input[j].title = "ISRO Launches PSLV Rocket Successfully Today")
                  => \A k \in 1..Len(call.output) : call.output[k] # call.input[j]

\* C11 witness: the two ISRO titles came in, in that order, and only the
\* first left.
C11_Witness ==
    /\ DedupeDone
    /\ Len(call.input) = 2
    /\ call.input[1].title = "ISRO Launches PSLV Rocket Successfully"
    /\ call.input[2].title = "ISRO Launches PSLV Rocket Successfully Today"
    /\ call.output = << call.input[1] >>

\* C12: remove_duplicates drops an article only when an earlier article of
\* the input has the same key: the first article of every key of the input,
\* the blank key of an empty or all-punctuation title included, is in the
\* output (the statement of the claim; the code drops blank keys).
C12_FirstOfEveryKeyKept ==
    DedupeDone =>
        \A i \in 1..Len(call.input) :
            (\A j \in 1..(i - 1) :
                title_key(call.input[j].title) # title_key(call.input[i].title))
                => \E k \in 1..Len(call.output) : call.output[k] = call.input[i]

(***************************************************************************)
(* The document generate_simple_report(articles, days_back) builds, as the *)
(* sequence of the blocks its statements append: each block is one         *)
(* report += ... or summary += ... of the code.                            *)
(***************************************************************************)
Simple_defense_companies ==
    << "HAL", "Hindustan Aeronautics", "DRDO", "BEL", "BHEL", "Tata Advanced Systems",
       "TASL", "L&T", "Larsen & Toubro", "Mahindra Defense", "Kalyani Group",
       "Bharat Forge", "Reliance Defence", "Adani Defence" >>

Simple_space_companies ==
    << "ISRO", "Skyroot", "Agnikul", "Pixxel", "Bellatrix", "Dhruva Space",
       "Astrome", "Antrix", "NSIL", "Kawa Space", "Satellogic India" >>

\* The companies of the list whose lower-cased name occurs in the lower-cased
\* title + " " + content of some article.
Mentioned(companies, list) ==
    {companies[c] : c \in {c \in 1..Len(companies) :
        \E a \in 1..Len(list) :
            Contains(Lower(companies[c]), Lower(list[a].title \o " " \o list[a].content))}}

\* SimpleNewsScraper.generate_company_summary.
Simple_generate_company_summary(list) ==
    LET mentioned_defense == Mentioned(Simple_defense_companies, list)
        mentioned_space == Mentioned(Simple_space_companies, list)
    IN  << [kind |-> "companies_header"] >>
        \o (IF mentioned_defense # {}
               THEN << [kind |-> "defense_companies", names |-> mentioned_defense] >>
            ELSE << >>)
        \o (IF mentioned_space # {}
               THEN << [kind |-> "space_companies", names |-> mentioned_space] >>
            ELSE << >>)
        \o (IF mentioned_defense = {} /\ mentioned_space = {}
               THEN << [kind |-> "no_companies_mentioned"] >>
            ELSE << >>)

OfCategory(list, category) == SelectSeq(list, LAMBDA a : a.category = category)

ArticleBlocks(list) == [i \in 1..Len(list) |-> [kind |-> "article", title |-> list[i].title]]

\* The header and the two sections, the same in both classes.
ReportSections(list, days) ==
    LET defense_articles == OfCategory(list, "Defense News")
        space_articles == OfCategory(list, "Space News")
    IN  << [kind |-> "header", days |-> days, total |-> Len(list),
            defense |-> Len(defense_articles), space |-> Len(space_articles)] >>
        \o (IF defense_articles # << >>
               THEN << [kind |-> "defense_section", count |-> Len(defense_articles)] >>
                    \o ArticleBlocks(defense_articles)
            ELSE << >>)
        \o (IF space_articles # << >>
               THEN << [kind |-> "space_section", count |-> Len(space_articles)] >>
                    \o ArticleBlocks(space_articles)
            ELSE << >>)

\* SimpleNewsScraper.generate_simple_report(articles, days_back), the
\* definition in force, called with both arguments.
Simple_report_blocks(list, days) ==
    IF list = << >>
        THEN [raises |-> FALSE, blocks |-> << [kind |-> "no_articles", days |-> days] >>]
    ELSE [raises |-> FALSE,
          blocks |-> ReportSections(list, days) \o Simple_generate_company_summary(list)]

\* RobustNewsScraper.generate_simple_report(articles, days_back): after the
\* sections it calls self.generate_company_summary, which the class does not
\* define, and the AttributeError leaves the function.
Robust_report_blocks(list, days) ==
    IF list = << >>
        THEN [raises |-> FALSE, blocks |-> << [kind |-> "no_articles", days |-> days] >>]
    ELSE [raises |-> TRUE, blocks |-> << >>]

report_blocks(class, list, days) ==
    IF class = "Robust" THEN Robust_report_blocks(list, days)
    ELSE Simple_report_blocks(list, days)

(***************************************************************************)
(* SpecReport: one call of generate_simple_report(articles, days_back) of  *)
(* either class.                                                           *)
(***************************************************************************)
ReportArticles ==
    { Article("HAL Delivers Trainer Jets", "https://example.org/hal", "HAL handed over jets.",
              "now", "https://defence.in/feed/", "Defense News"),
      Article("Army Exercise Begins", "https://example.org/army", "Troops moved out.",
              "now", "https://defence.in/feed/", "Defense News"),
      Article("Skyroot Plans Launch", "https://example.org/skyroot", "A rocket is ready.",
              "now", "https://spacenews.com/feed/", "Space News"),
      Article("Satellite Images Released", "https://example.org/images", "New pictures.",
              "now", "https://spacenews.com/feed/", "Space News") }

ReportInputs == UNION {[1..n -> ReportArticles] : n \in 0..MaxArticles}

ReportDays == {1, 7}

ReportInit ==
    /\ call \in {[fn |-> "generate_simple_report", class |-> c, input |-> list,
                  days |-> d, done |-> FALSE, raises |-> FALSE, blocks |-> << >>]
                 : c \in Classes, list \in ReportInputs, d \in ReportDays}
    /\ RunIdle /\ ClassifyIdle /\ CleanIdle /\ ExtractIdle

ReportRobust ==
    /\ call.fn = "generate_simple_report"
    /\ call.class = "Robust"
    /\ ~call.done
    /\ LET made == Robust_report_blocks(call.input, call.days)
       IN  call' = [call EXCEPT !.done = TRUE, !.raises = made.raises,
                                !.blocks = made.blocks]
    /\ UNCHANGED << runVars, classify, clean, extract >>

ReportSimple ==
    /\ call.fn = "generate_simple_report"
    /\ call.class = "Simple"
    /\ ~call.done
    /\ LET made == Simple_report_blocks(call.input, call.days)
       IN  call' = [call EXCEPT !.done = TRUE, !.raises = made.raises,
                                !.blocks = made.blocks]
    /\ UNCHANGED << runVars, classify, clean, extract >>

ReportNext == ReportRobust \/ ReportSimple

SpecReport == ReportInit /\ [][ReportNext]_vars

HasBlock(kind) == \E i \in 1..Len(call.blocks) : call.blocks[i].kind = kind

\* C13: generate_simple_report called with exactly one Defense article and no
\* Space article returns without raising a document with the Defense
\* section, without the Space section header, and with a company summary
\* that says that no space company was mentioned whenever none matched, also
\* when a defense company matched (the statement of the claim).
C13_OneDefenseArticleReport ==
    (/\ call.fn = "generate_simple_report"
     /\ call.done
     /\ Len(call.input) = 1
     /\ call.input[1].category = "Defense News")
        => /\ ~call.raises
           /\ HasBlock("defense_section")
           /\ ~HasBlock("space_section")
           /\ HasBlock("companies_header")
           /\ ~HasBlock("space_companies") => HasBlock("no_companies_mentioned")

EntryAges == {0, 1, 14, 15, 16, 61}

EntryKeys == SUBSET {"title", "link", "published_parsed"}

\* A press-release title with a term of each alternative branch and an
\* exclusion keyword.
FilmTitle == "Film Festival Marks DRDO Satellite Launch"

EntryPool ==
    {[has |-> keys \cup {"summary"},
      title |-> IF "title" \in keys THEN title ELSE "",
      summary |-> summary,
      link |-> IF "link" \in keys THEN "https://example.org/story" ELSE "",
      age |-> IF "published_parsed" \in keys THEN age ELSE 0,
      date_valid |-> IF "published_parsed" \in keys THEN valid ELSE TRUE,
      \* a GET of the empty url raises requests' MissingSchema
      script |-> IF "link" \in keys THEN << "ok", "ok", "ok" >>
                 ELSE << "request_error", "request_error", "request_error" >>,
      doc |-> ArticlePage]
     : keys \in EntryKeys, title \in {DrdoTitle, FilmTitle, ""}, summary \in {"", "drdo test"},
       age \in EntryAges, valid \in BOOLEAN}

EntryDays == {1, 7, 30}

EntryPaths == {"feed", "pib", "mod"}

EntryFeed == [category |-> "Defense News", url |-> Robust_defense_feeds[1]]

\* SimpleNewsScraper has one window, 7 days, and no alternative sources.
EntryInit ==
    /\ call \in {[fn |-> "process_entry", class |-> c, path |-> path, entry |-> e,
                  days |-> d, done |-> FALSE, fate |-> "", new |-> << >>]
                 : c \in Classes, path \in EntryPaths, e \in EntryPool, d \in EntryDays}
    /\ call.class = "Simple" => (call.path = "feed" /\ call.days = 7)
    /\ RunIdle /\ ClassifyIdle /\ CleanIdle /\ ExtractIdle

EntryRobust ==
    /\ call.fn = "process_entry" /\ call.class = "Robust" /\ call.path = "feed"
    /\ ~call.done
    /\ LET made == Robust_process_entry(call.entry, EntryFeed, call.days)
       IN  call' = [call EXCEPT !.done = TRUE, !.fate = made.fate, !.new = made.new]
    /\ UNCHANGED << runVars, classify, clean, extract >>

EntrySimple ==
    /\ call.fn = "process_entry" /\ call.class = "Simple" /\ call.path = "feed"
    /\ ~call.done
    /\ LET made == Simple_process_entry(call.entry, EntryFeed)
       IN  call' = [call EXCEPT !.done = TRUE, !.fate = made.fate, !.new = made.new]
    /\ UNCHANGED << runVars, classify, clean, extract >>

\* The entry is the only one of the press-release feed, which is fetched and
\* parsed.
EntryAlternative ==
    /\ call.fn = "process_entry" /\ call.class = "Robust" /\ call.path \in {"pib", "mod"}
    /\ ~call.done
    /\ LET world == [script |-> << "ok", "ok", "ok" >>, parse_raises |-> FALSE,
                     entries |-> << call.entry >>]
           made == IF call.path = "pib" THEN pib_branch(world) ELSE mod_branch(world)
       IN  call' = [call EXCEPT !.done = TRUE,
                                !.fate = IF made.new = << >> THEN "no_article"
                                         ELSE "accepted",
                                !.new = made.new]
    /\ UNCHANGED << runVars, classify, clean, extract >>

EntryNext == EntryRobust \/ EntrySimple \/ EntryAlternative

SpecEntry == EntryInit /\ [][EntryNext]_vars

EntryDone == call.fn = "process_entry" /\ call.done

\* The entry carries a publish date that can be read.
HasPublishDate(e) == "published_parsed" \in e.has /\ e.date_valid

\* C15: no article of the harvest for a given days_back comes from an entry
\* whose publish date is earlier than now - days_back, on the path of the
\* regular feeds and on the path of the alternative sources (the statement
\* of the claim).
C15_NoArticleOlderThanWindow ==
    (EntryDone /\ HasPublishDate(call.entry) /\ call.entry.age > 2 * call.days)
        => call.new = << >>

\* C17: a feed entry whose publish date is absent or cannot be parsed is
\* treated as published now: the date filter does not skip it and it goes
\* on to the relevance classifier (the statement of the claim; stated for
\* entries that have a title and a link).
C17_UndatedEntryIsClassified ==
    (/\ EntryDone
     /\ call.path = "feed"
     /\ {"title", "link"} \subseteq call.entry.has
     /\ ~HasPublishDate(call.entry))
        => call.fate \in {"accepted", "rejected"}

\* C18: the date of a harvested article is the entry's own publish date,
\* formatted, whenever the entry carries a publish date that can be read
\* (the statement of the claim; stated for entries published at least a
\* whole day before the processing time).
C18_ArticleDateIsPublishDate ==
    (/\ EntryDone
     /\ call.path = "feed"
     /\ HasPublishDate(call.entry)
     /\ call.entry.age >= 2
     /\ call.new # << >>)
        => call.new[1].date = FormatDay(call.entry.age \div 2)

\* C20: an entry of a feed of RobustNewsScraper with a missing title or a
\* missing link is skipped: it gives no article, so that no harvested
\* article has an empty title and an empty url (the statement of the claim).
C20_EntryWithoutTitleOrLinkSkipped ==
    (EntryDone /\ call.class = "Robust" /\ call.path = "feed")
        => /\ ~({"title", "link"} \subseteq call.entry.has) => call.new = << >>
           /\ \A k \in 1..Len(call.new) :
                 ~(call.new[k].title = "" /\ call.new[k].url = "")

\* extract_full_article fetched the page and the HTML parser read it.
PageWasRead ==
    /\ extract.by \in {"Robust", "Simple"}
    /\ ~extract.doc.parse_raises
    /\ IF extract.by = "Robust" THEN safe_request(extract.url, extract.script).ok
       ELSE extract.script[1] = "ok"

\* What extract_full_article returns when it takes the text of the document
\* body.
ResultFromBody ==
    LET cleaned == clean_text(extract.by,
                              IF extract.doc.has_body THEN extract.doc.body ELSE "")
    IN  IF extract.by = "Robust" /\ cleaned = "" THEN "No content extracted" ELSE cleaned

\* C19: extract_full_article takes the first matching element whose text is
\* longer than the substantial-content threshold (100 to 200 characters), a
\* matching element with short or empty text does not stop the probe, and
\* with no substantial text under any selector the document body is used
\* (the statement of the claim): on a page whose matching elements all have
\* fewer than 100 characters of text the result is that of the body.
C19_ShortElementsFallBackToBody ==
    (/\ PageWasRead
     /\ \A sel \in DOMAIN extract.doc.elems : Len(extract.doc.elems[sel]) < 100)
        => extract.result = ResultFromBody

(***************************************************************************)
(* One call of RobustNewsScraper.safe_request against a scripted network.  *)
(***************************************************************************)
RequestOutcomes ==
    {"ok", "timeout", "connection", "http403", "http404", "http429",
     "http500", "http503", "request_error", "unexpected"}

RequestScripts == [1..max_retries -> RequestOutcomes]

RequestUrl == "https://idrw.org/feed/"

\* self.stats when the call is made: fresh, or in the middle of a harvest.
RequestStats ==
    {StatsInit,
     [total_feeds_processed |-> 2, successful_feeds |-> 1, failed_feeds |-> 1,
      total_articles_found |-> 3, relevant_articles |-> 1,
      errors |-> << "Timeout: https://www.defensenews.com/rss/" >>]}

\* The call with the default max_retries, or with a smaller limit.
RequestInit ==
    /\ RunIdle /\ ClassifyIdle /\ CleanIdle /\ ExtractIdle
    /\ \E script \in RequestScripts, retries \in 1..max_retries, before \in RequestStats :
          call = [fn |-> "safe_request", url |-> RequestUrl, script |-> script,
                  retries |-> retries, before |-> before, stats |-> before,
                  done |-> FALSE, ok |-> FALSE, gets |-> 0, errors |-> << >>]

RequestCall ==
    /\ call.fn = "safe_request"
    /\ ~call.done
    /\ LET response == SafeRequestFrom(call.url, call.script, 0, call.retries)
       IN  call' = [call EXCEPT !.done = TRUE, !.ok = response.ok,
                                !.gets = response.gets, !.errors = response.errors,
                                !.stats = [@ EXCEPT !.errors = @ \o response.errors]]
    /\ UNCHANGED << runVars, classify, clean, extract >>

RequestNext == RequestCall

SpecRequest == RequestInit /\ [][RequestNext]_vars

RequestDone == call.fn = "safe_request" /\ call.done

\* The GET at which a call stops when 200 ends it with the response, 404 ends
\* it with a failure and everything else is tried again up to the limit.
RECURSIVE StopsAt(_, _)
StopsAt(script, i) ==
    IF i >= max_retries \/ script[i] \in {"ok", "http404"} THEN i
    ELSE StopsAt(script, i + 1)

\* C16: safe_request makes exactly one GET when the status is 404 and returns
\* the failure, tries again after every other non-200 status and every
\* network or timeout error until max_retries GETs are made, and never makes
\* more than max_retries GETs (the statement of the claim).
C16_Only404IsNotRetried ==
    (RequestDone /\ call.retries = max_retries)
        => /\ call.gets <= max_retries
           /\ call.gets = StopsAt(call.script, 1)
           /\ call.ok <=> call.script[call.gets] = "ok"

\* C21: every article of the harvest comes from an entry that
\* is_relevant_article accepted on its title and summary, on the path of the
\* regular feeds and on the path of the alternative sources (the statement
\* of the claim).
C21_EveryArticlePassedTheFilter ==
    (EntryDone /\ call.new # << >>)
        => is_relevant_article(call.class, EntryGet(call.entry, "title", ""),
                               EntryGet(call.entry, "summary", ""))

(***************************************************************************)
(* run_scheduled (both files): the job registered for Monday 09:00 and the *)
(* loop of run_pending and sleep.  Time is counted in polls; `until` is    *)
(* the number of sleeps before the job is due, WeekPolls of them in a      *)
(* week.  The process is started at any time of the week.                  *)
(***************************************************************************)
ScheduleInit ==
    /\ RunIdle /\ ClassifyIdle /\ CleanIdle /\ ExtractIdle
    /\ \E c \in Classes, wait \in 1..WeekPolls :
          call = [fn |-> "run_scheduled", class |-> c, pc |-> "run_pending",
                  until |-> wait, runs |-> 0, ended |-> "running"]

\* schedule.run_pending() with no job due: it returns.
SchedulePollIdle ==
    /\ call.fn = "run_scheduled" /\ call.pc = "run_pending"
    /\ call.until > 0
    /\ call' = [call EXCEPT !.pc = "sleep"]
    /\ UNCHANGED << runVars, classify, clean, extract >>

\* time.sleep(60)
ScheduleSleep ==
    /\ call.fn = "run_scheduled" /\ call.pc = "sleep"
    /\ call' = [call EXCEPT !.pc = "run_pending", !.until = @ - 1]
    /\ UNCHANGED << runVars, classify, clean, extract >>

\* schedule.run_pending() with the job due, RobustNewsScraper: the job calls
\* scraper.run_scraper(7).
ScheduleTriggerRobust ==
    /\ call.fn = "run_scheduled" /\ call.pc = "run_pending"
    /\ call.class = "Robust"
    /\ call.until = 0
    /\ call' = [call EXCEPT !.pc = "run_scraper", !.runs = @ + 1]
    /\ UNCHANGED << runVars, classify, clean, extract >>

\* Every path through RobustNewsScraper.run_scraper ends in sys.exit(0) or
\* sys.exit(1), the except of the function included.  SystemExit is no
\* Exception and no KeyboardInterrupt: it leaves run_pending and the loop of
\* run_scheduled, and the process ends.
ScheduleRunExits ==
    /\ call.fn = "run_scheduled" /\ call.pc = "run_scraper"
    /\ \E code \in {"exit 0", "exit 1"} :
          call' = [call EXCEPT !.pc = "process_ended", !.ended = code]
    /\ UNCHANGED << runVars, classify, clean, extract >>

\* schedule.run_pending() with the job due, SimpleNewsScraper: run_scraper
\* takes no argument, the call scraper.run_scraper(7) raises TypeError before
\* the body runs, and nothing catches it.
ScheduleTriggerSimple ==
    /\ call.fn = "run_scheduled" /\ call.pc = "run_pending"
    /\ call.class = "Simple"
    /\ call.until = 0
    /\ call' = [call EXCEPT !.pc = "process_ended", !.ended = "TypeError"]
    /\ UNCHANGED << runVars, classify, clean, extract >>

\* Ctrl+C: except KeyboardInterrupt, "Scheduler stopped".
ScheduleInterrupt ==
    /\ call.fn = "run_scheduled"
    /\ call.pc \in {"run_pending", "sleep", "run_scraper"}
    /\ call' = [call EXCEPT !.pc = "process_ended", !.ended = "KeyboardInterrupt"]
    /\ UNCHANGED << runVars, classify, clean, extract >>

\* What the process does by itself.
ScheduleProgress ==
    \/ SchedulePollIdle
    \/ ScheduleSleep
    \/ ScheduleTriggerRobust
    \/ ScheduleRunExits
    \/ ScheduleTriggerSimple

ScheduleNext == ScheduleProgress \/ ScheduleInterrupt

\* The process keeps taking its steps; an interrupt may or may not come.
SpecSchedule == ScheduleInit /\ [][ScheduleNext]_vars /\ WF_vars(ScheduleProgress)

\* C22: in schedule mode the loop of the scheduler stays alive across
\* triggers, after a run of run_scraper too: the process ends only when it
\* is interrupted (the statement of the claim, as far as a finite run can
\* refute it).
C22_LoopAliveUnlessInterrupted ==
    (call.fn = "run_scheduled" /\ call.pc = "process_ended")
        => call.ended = "KeyboardInterrupt"

\* C22, the liveness it states: unless the process is interrupted, runs of
\* run_scraper start again and again.
C22_RunsInfinitelyOften ==
    \/ []<>(call.fn = "run_scheduled" /\ call.pc = "run_scraper")
    \/ <>(call.fn = "run_scheduled" /\ call.ended = "KeyboardInterrupt")

\* C23: a call of safe_request that returns a response leaves
\* stats['errors'] as it was, a call that returns None appends exactly one
\* entry to it, whatever the outcomes of the attempts and whatever the limit
\* (at least 1); no other field of stats changes.
C23_OneErrorPerFailedCall ==
    RequestDone
        => /\ call.stats = [call.before EXCEPT !.errors = call.stats.errors]
           /\ SubSeq(call.stats.errors, 1, Len(call.before.errors)) = call.before.errors
           /\ Len(call.stats.errors)
                 = Len(call.before.errors) + (IF call.ok THEN 0 ELSE 1)

\* A call that used every attempt and returned None, made in the middle of
\* a harvest.
C23_Witness ==
    /\ RequestDone
    /\ ~call.ok
    /\ call.retries = max_retries
    /\ call.gets = max_retries
    /\ call.before # StatsInit
    /\ Len(call.stats.errors) = 2

\* The number of feeds the loop has left with the given outcome.
CountOutcome(outcome) ==
    Cardinality({i \in 1..Len(attempted) : attempted[i].outcome = outcome})

\* C24: when scrape_rss_feeds of RobustNewsScraper has returned, every feed
\* is counted once in total_feeds_processed and once as successful (it
\* parsed, with or without entries) or as failed, so that successful_feeds +
\* failed_feeds = total_feeds_processed and successful_feeds is at most
\* total_feeds_processed.
C24_FeedCountsPartition ==
    (impl = "Robust" /\ pc # "harvest")
        => /\ stats.total_feeds_processed = Len(attempted)
           /\ stats.successful_feeds = CountOutcome("parsed")
           /\ stats.failed_feeds = Len(attempted) - CountOutcome("parsed")
           /\ stats.successful_feeds + stats.failed_feeds = stats.total_feeds_processed
           /\ stats.successful_feeds <= stats.total_feeds_processed

\* The harvest has returned with a feed that failed at the fetch, a feed
\* whose parse failed, and a last feed that parsed without entries.
C24_Witness ==
    /\ impl = "Robust"
    /\ pc = "dedupe"
    /\ CountOutcome("fetch_failed") >= 1
    /\ CountOutcome("parse_failed") >= 1
    /\ lastFeed.url = attempted[Len(attempted)].url
    /\ lastFeed.entries = << >>

(***************************************************************************)
(* The end of a harvest of RobustNewsScraper and the deduplication of       *)
(* run_scraper: the articles of the 'Defense News' feeds and of the 'Space  *)
(* News' feeds, the alternative sources for the failed URLs, then           *)
(* remove_duplicates.                                                       *)
(***************************************************************************)
\* A variant of the loop order with the 'Space News' feeds first.
HarvestOrderSpaceFirst(defence, space) == space \o defence

\* for category, feeds in self.sources.items(): the articles of the
\* 'Defense News' feeds are appended before those of the 'Space News' feeds.
HarvestOrder(defence, space) == defence \o space

FinishTitles ==
    { DrdoTitle, "DRDO tests new missile system - update",
      "ISRO Launches PSLV Rocket Successfully" }

FinishArticles(feed) ==
    LET made(title) == Article(title, "https://example.org/story", "text", "now",
                               feed.url, feed.category)
    IN  UNION {{[i \in 1..n |-> made(titles[i])] : titles \in [1..n -> FinishTitles]}
               : n \in 0..MaxArticles}

FinishInit ==
    /\ RunIdle /\ ClassifyIdle /\ CleanIdle /\ ExtractIdle
    /\ \E defence \in FinishArticles([category |-> "Defense News",
                                      url |-> Robust_defense_feeds[1]]),
          space \in FinishArticles([category |-> "Space News",
                                    url |-> Robust_space_feeds[1]]),
          failed \in {<< >>, << Robust_defense_feeds[3] >>} :
          call = [fn |-> "finish_harvest", pc |-> "alternatives",
                  defence |-> defence, space |-> space, failed_urls |-> failed,
                  articles |-> HarvestOrder(defence, space), unique |-> << >>]

\* if failed_urls: articles.extend(self.try_alternative_sources(failed_urls));
\* return articles
FinishAlternatives ==
    /\ call.fn = "finish_harvest" /\ call.pc = "alternatives"
    /\ \E pib \in AlternativeWorlds, mod \in AlternativeWorlds :
          LET alt == IF call.failed_urls # << >>
                         THEN try_alternative_sources(call.failed_urls, pib, mod)
                     ELSE [new |-> << >>, errors |-> << >>]
          IN  call' = [call EXCEPT !.pc = "dedupe", !.articles = @ \o alt.new]
    /\ UNCHANGED << runVars, classify, clean, extract >>

\* articles = self.remove_duplicates(articles)
FinishDedupe ==
    /\ call.fn = "finish_harvest" /\ call.pc = "dedupe"
    /\ call' = [call EXCEPT !.pc = "done", !.unique = remove_duplicates(call.articles)]
    /\ UNCHANGED << runVars, classify, clean, extract >>

FinishNext == FinishAlternatives \/ FinishDedupe

SpecFinish == FinishInit /\ [][FinishNext]_vars

FinishDone == call.fn = "finish_harvest" /\ call.pc = "done"

IsPrefix(s, t) == Len(s) <= Len(t) /\ SubSeq(t, 1, Len(s)) = s

\* The articles of a list whose title has the given key.
WithKey(list, key) == {i \in 1..Len(list) : title_key(list[i].title) = key}

\* C25: when a 'Defense News' feed and a 'Space News' feed both gave an
\* article of the same story (the same key of 5 tokens), the one article of
\* that story left after run_scraper's deduplication is the 'Defense News'
\* one, from its regular feed; the articles of the alternative sources come
\* after all articles of the regular feeds and displace none of them: what
\* deduplication keeps of the regular articles alone, it keeps.
C25_DefenseArticleSurvives ==
    FinishDone
        => /\ \A i \in 1..Len(call.defence), j \in 1..Len(call.space) :
                 LET key == title_key(call.defence[i].title)
                 IN  title_key(call.space[j].title) = key
                        => /\ Cardinality(WithKey(call.unique, key)) = 1
                           /\ \A k \in WithKey(call.unique, key) :
                                 /\ call.unique[k].category = "Defense News"
                                 /\ call.unique[k].source = Robust_defense_feeds[1]
           /\ IsPrefix(call.defence \o call.space, call.articles)
           /\ IsPrefix(remove_duplicates(call.defence \o call.space), call.unique)

\* Both categories gave the DRDO story, the press releases of the Ministry
\* of Defence gave it too, and one article is left.
C25_Witness ==
    /\ FinishDone
    /\ \E i \in 1..Len(call.defence) : call.defence[i].title = DrdoTitle
    /\ \E j \in 1..Len(call.space) :
          title_key(call.space[j].title) = title_key(DrdoTitle)
    /\ \E k \in 1..Len(call.articles) :
          /\ call.articles[k].source = "MoD PIB (Alternative)"
          /\ title_key(call.articles[k].title) = title_key(DrdoTitle)
    /\ Len(call.unique) = 1

====
